---------------------------- MODULE Spec2Model ----------------------------
(***************************************************************************)
(* mongoose-elasticsearch-xp: the streaming synchronisation controller     *)
(* (esSynchronize, src/index.js 175-247) driving a record stream into the  *)
(* Bulk Queue, the retryable single-document delete (deleteByMongoId,      *)
(* src/index.js 293-314), the plugin's options with the persistence hooks  *)
(* (src/index.js 7-55, 255-283, 321-340) and esCreateMapping (65-113).     *)
(*                                                                         *)
(* JavaScript runs one handler to completion before the next event is      *)
(* delivered, so every action below is one whole handler: the event, the   *)
(* listener the code registered for it and every call that listener makes. *)
(*                                                                         *)
(* lib/bulker.js and lib/utils.js are required by index.js (lines 3-4);    *)
(* the behaviour of the Bulk Queue and of defer is taken from sections 4.1 *)
(* and 4.2 of the specification.  The record stream is the store layer's:  *)
(* it emits records in order, nothing while paused, and 'close' at its end.*)
(***************************************************************************)
EXTENDS Integers, Sequences, FiniteSets, TLC

\* Bounds of the model: longest record stream, largest bulk size bound.
MaxN == 6
MaxB == 3
\* Most uses of the queue by its owner after a synchronize run.
MaxOutside == 2
\* Most calls of esOptions, and most runs of each persistence hook.
MaxCalls == 3
MaxHooks == 2

\* removeDoc passes 3 as the retry count (index.js:281).
DefaultRetry == 3
\* setTimeout delay of a retry, in ms (index.js:305).
BackoffMs == 500

VARIABLES
  started,       \* synchronize has been called
  total,         \* N: number of records the query's stream will emit
  size,          \* B: the Bulk Queue's size bound
  cursor,        \* stream: number of records emitted so far
  paused,        \* stream: paused (TRUE) or flowing (FALSE)
  ended,         \* stream: 'close' has been emitted
  streamClosed,  \* controller: var streamClosed (index.js:196)
  listening,     \* controller: onError/onSent are registered on the bulker
  buffer,        \* Bulk Queue: the pending batch
  inFlight,      \* Bulk Queue: batches handed to client.bulk, not yet answered
  waiting,       \* Bulk Queue: a dispatch is owed once the call in flight ends
  dispatched,    \* history: every batch handed to client.bulk, in order
  delivered,     \* history: the batches whose bulk call succeeded
  failed,        \* history: the batches whose bulk call failed
  log,           \* history: calls and notifications, in program order
  refreshOut,    \* number of indices.refresh calls not yet answered
  outcome,       \* the promise of synchronize: pending / resolved / rejected
  outside,       \* Bulk Queue: flushes made by its owner, not by synchronize
  dPhase,        \* delete: idle / calling / waiting / done
  dStart,        \* delete: retry argument of the first deleteByMongoId call
  dRetry,        \* delete: retry argument of the current call
  dCalls,        \* delete: client.delete calls issued
  dWaits,        \* delete: backoff timers started
  dHist,         \* delete: the engine's answers, in order
  dResult,       \* delete: arguments the callback was invoked with, in order
  dTimers,       \* delete: delays of the timers started, in order
  dOwner,        \* delete: who entered the chain: direct / removeDoc / hook
  configured,    \* the plugin function has run on the schema (index.js 7-55)
  oIndex,        \* options.index is set
  oBulk,         \* options.bulk is set
  oBulker,       \* options.bulker: 0 (undefined) or a Bulker instance
  nBulkers,      \* Bulker instances that exist
  oCalls,        \* calls of esOptions made
  syncBulkers,   \* the queue each synchronize invocation took, in order
  hRuns,         \* runs of postSave and postRemove
  hIndexOut,     \* client.index calls not yet answered
  hLog,          \* history: hook runs, calls and notifications, in order
  mCalls,        \* createMapping: its invocations, each with phase and trace
  eIndex         \* index engine: the index exists

svars == <<started, total, size, cursor, paused, ended, streamClosed, listening,
           buffer, inFlight, waiting, dispatched, delivered, failed, log,
           refreshOut, outcome, outside>>
dvars == <<dPhase, dStart, dRetry, dCalls, dWaits, dHist, dResult, dTimers,
           dOwner>>
ovars == <<configured, oIndex, oBulk, oBulker, nBulkers, oCalls, syncBulkers>>
hvars == <<hRuns, hIndexOut, hLog>>
mvars == <<mCalls, eIndex>>
pvars == <<ovars, hvars, mvars>>
vars == <<svars, dvars, pvars>>

-----------------------------------------------------------------------------
(* The state of one synchronize invocation as a record, so that a handler  *)
(* is a function from state to state and a whole handler is one action.    *)

Cur ==
  [started |-> started, total |-> total, size |-> size, cursor |-> cursor,
   paused |-> paused, ended |-> ended, streamClosed |-> streamClosed,
   listening |-> listening, buffer |-> buffer, inFlight |-> inFlight,
   waiting |-> waiting, dispatched |-> dispatched, delivered |-> delivered,
   failed |-> failed, log |-> log, refreshOut |-> refreshOut, outcome |-> outcome,
   outside |-> outside]

Commit(s) ==
  /\ started' = s.started
  /\ total' = s.total
  /\ size' = s.size
  /\ cursor' = s.cursor
  /\ paused' = s.paused
  /\ ended' = s.ended
  /\ streamClosed' = s.streamClosed
  /\ listening' = s.listening
  /\ buffer' = s.buffer
  /\ inFlight' = s.inFlight
  /\ waiting' = s.waiting
  /\ dispatched' = s.dispatched
  /\ delivered' = s.delivered
  /\ failed' = s.failed
  /\ log' = s.log
  /\ refreshOut' = s.refreshOut
  /\ outcome' = s.outcome
  /\ outside' = s.outside

\* The err argument of a callback: null, or the error of a failed call.
Null == "null"
BulkErr == "bulk error"
RefreshErr == "refresh error"

\* A log entry: what happened, with its numeric argument (a record, a
\* count) and its err argument.
Ev(name, arg, err) == [ev |-> name, arg |-> arg, err |-> err]

Record(s, name, arg) == [s EXCEPT !.log = Append(@, Ev(name, arg, Null))]

RecordErr(s, name, err) == [s EXCEPT !.log = Append(@, Ev(name, 0, err))]

\* schema.emit(name, arg): a notification to the caller's listeners.
Emit(s, name, arg) == Record(s, name, arg)

EmitErr(s, name, err) == RecordErr(s, name, err)

\* stream.pause() / stream.resume()
StreamPause(s) == Record([s EXCEPT !.paused = TRUE], "pause", 0)

StreamResume(s) == Record([s EXCEPT !.paused = FALSE], "resume", 0)

-----------------------------------------------------------------------------
(* Bulk Queue (lib/bulker.js), from section 4.1 of the specification.      *)

\* The pending batch becomes one client.bulk call.
BulkerDispatch(s) ==
  Record([s EXCEPT !.inFlight = Append(@, s.buffer),
                   !.dispatched = Append(@, s.buffer),
                   !.buffer = <<>>,
                   !.waiting = FALSE],
         "bulk", Len(s.buffer))

\* push(operation): append; at the size bound dispatch, unless a call is in
\* flight, in which case the full batch waits for it.  The result tells the
\* caller whether this push brought the batch to its bound.  Section 4.1
\* words that result as `false` at the bound; the caller binds it to a
\* variable named `sending` and resumes the stream when it is falsy
\* (index.js 227-234), so it is carried here under the caller's name and
\* sense: sending is TRUE at the bound.  One record is one operation
\* (section 3), although index.js 227-230 passes its action line and its
\* body as two arguments.
BulkerPush(s, op) ==
  LET s1 == Record([s EXCEPT !.buffer = Append(@, op)], "push", op)
      full == Len(s1.buffer) >= s1.size
  IN [st |-> IF ~full THEN s1
             ELSE IF s1.inFlight = <<>> THEN BulkerDispatch(s1)
             ELSE [s1 EXCEPT !.waiting = TRUE],
      sending |-> full]

\* filled(): the pending batch is non-empty.
BulkerFilled(s) == s.buffer # <<>>

\* flush(): dispatch the pending batch even below the bound.
BulkerFlush(s) ==
  IF s.buffer = <<>> THEN s
  ELSE IF s.inFlight = <<>> THEN BulkerDispatch(s)
  ELSE [s EXCEPT !.waiting = TRUE]

\* After the call in flight has ended: dispatch the batch that waited for it.
BulkerNext(s) == IF s.waiting /\ s.inFlight = <<>> THEN BulkerDispatch(s) ELSE s

\* utils.defer(callback).callback, the (err, res) callback of the promise:
\* the promise settles once, rejected with err or resolved.
DeferCallback(s, err) ==
  LET s1 == RecordErr(s, IF err # Null THEN "reject" ELSE "resolve", err)
  IN IF s.outcome = "pending"
     THEN [s1 EXCEPT !.outcome = IF err # Null THEN "rejected" ELSE "resolved"]
     ELSE s1

-----------------------------------------------------------------------------
(* Synchronisation controller, index.js 175-247.                           *)

\* finalize that leaves onError and onSent registered on the queue.
Finalize_KeepListeners(s) ==
  Record([s EXCEPT !.refreshOut = @ + 1], "refresh", 0)

\* function finalize(), index.js 198-202
Finalize(s) ==
  Record([s EXCEPT !.listening = FALSE, !.refreshOut = @ + 1], "refresh", 0)

\* onError that forgets to resume the stream.
OnError_NoResume(s, err) ==
  LET s1 == EmitErr(s, "es-bulk-error", err)
  IN IF s1.streamClosed THEN Finalize(s1) ELSE s1

\* onError that also rejects the promise with the bulk error.
OnError_Reject(s, err) ==
  LET s1 == DeferCallback(EmitErr(s, "es-bulk-error", err), err)
  IN IF s1.streamClosed THEN Finalize(s1) ELSE StreamResume(s1)

\* function onError(err), index.js 204-211
OnError(s, err) ==
  LET s1 == EmitErr(s, "es-bulk-error", err)
  IN IF s1.streamClosed THEN Finalize(s1) ELSE StreamResume(s1)

\* onSent that resumes the stream even after the stream has closed.
OnSent_ResumeOnly(s, len) == StreamResume(Emit(s, "es-bulk-sent", len))

\* function onSent(len), index.js 213-220
OnSent(s, len) ==
  LET s1 == Emit(s, "es-bulk-sent", len)
  IN IF s1.streamClosed THEN Finalize(s1) ELSE StreamResume(s1)

\* 'data' listener that resumes whatever push returned.
OnData_ResumeAlways(s, doc) ==
  LET s1 == StreamPause(s)
      r  == BulkerPush(s1, doc)
      s2 == Emit(r.st, "es-bulk-data", doc)
  IN StreamResume(s2)

\* 'data' listener that pauses only after a push that filled the batch.
OnData_NoPause(s, doc) ==
  LET r  == BulkerPush(s, doc)
      s2 == Emit(r.st, "es-bulk-data", doc)
  IN IF ~r.sending THEN StreamResume(s2) ELSE [s2 EXCEPT !.paused = TRUE]

\* 'data' listener that pushes the record a second time when the first push
\* did not fill the batch.
OnData_PushTwice(s, doc) ==
  LET s1 == StreamPause(s)
      r1 == BulkerPush(s1, doc)
      r  == IF r1.sending THEN r1 ELSE BulkerPush(r1.st, doc)
      s2 == Emit(r.st, "es-bulk-data", doc)
  IN IF ~r.sending THEN StreamResume(s2) ELSE s2

\* stream.on('data', function (doc) {...}), index.js 225-235
OnData(s, doc) ==
  LET s1 == StreamPause(s)
      r  == BulkerPush(s1, doc)
      s2 == Emit(r.st, "es-bulk-data", doc)
  IN IF ~r.sending THEN StreamResume(s2) ELSE s2

\* 'close' listener that finalizes without flushing the pending batch.
OnClose_SkipFlush(s) == Finalize([s EXCEPT !.streamClosed = TRUE])

\* 'close' listener with the test on filled() inverted.
OnClose_Inverted(s) ==
  LET s1 == [s EXCEPT !.streamClosed = TRUE]
  IN IF ~BulkerFilled(s1) THEN BulkerFlush(s1) ELSE Finalize(s1)

\* 'close' listener that flushes and finalizes without waiting for the flush.
OnClose_FinalizeToo(s) ==
  LET s1 == [s EXCEPT !.streamClosed = TRUE]
  IN IF BulkerFilled(s1) THEN Finalize(BulkerFlush(s1)) ELSE Finalize(s1)

\* 'close' listener that does not set streamClosed.
OnClose_NoFlag(s) ==
  IF BulkerFilled(s) THEN BulkerFlush(s) ELSE Finalize(s)

\* stream.on('close', function () {...}), index.js 237-244
OnClose(s) ==
  LET s1 == [s EXCEPT !.streamClosed = TRUE]
  IN IF BulkerFilled(s1) THEN BulkerFlush(s1) ELSE Finalize(s1)

\* synchronize(...), index.js 175-223: a query of n records is opened as a
\* flowing stream, a Bulk Queue of bound b is taken and the two listeners are
\* registered on it.
Synchronize ==
  /\ ~started
  /\ \E n \in 0..MaxN, b \in 1..MaxB :
       Commit([Cur EXCEPT !.started = TRUE, !.total = n, !.size = b,
                          !.listening = TRUE])
  /\ UNCHANGED <<dvars, pvars>>

\* The stream, flowing, emits its next record: the 'data' listener runs.
StreamData ==
  /\ started /\ ~paused /\ ~ended /\ cursor < total
  /\ Commit(OnData([Cur EXCEPT !.cursor = cursor + 1], cursor + 1))
  /\ UNCHANGED <<dvars, pvars>>

\* The stream, flowing and exhausted, emits 'close': the listener runs.
StreamClose ==
  /\ started /\ ~paused /\ ~ended /\ cursor = total
  /\ Commit(OnClose([Cur EXCEPT !.ended = TRUE]))
  /\ UNCHANGED <<dvars, pvars>>

\* client.bulk answers without error: the queue emits 'sent'.
BulkSent ==
  /\ inFlight # <<>>
  /\ LET batch == Head(inFlight)
         s1 == [Cur EXCEPT !.inFlight = Tail(@),
                           !.delivered = Append(@, batch)]
         s2 == IF s1.listening THEN OnSent(s1, Len(batch)) ELSE s1
     IN Commit(BulkerNext(s2))
  /\ UNCHANGED <<dvars, pvars>>

\* client.bulk fails at transport level: the queue emits 'error'.
BulkError ==
  /\ inFlight # <<>>
  /\ LET batch == Head(inFlight)
         s1 == [Cur EXCEPT !.inFlight = Tail(@),
                           !.failed = Append(@, batch)]
         s2 == IF s1.listening THEN OnError(s1, BulkErr) ELSE s1
     IN Commit(BulkerNext(s2))
  /\ UNCHANGED <<dvars, pvars>>

\* indices.refresh answers: defer.callback settles the promise (index.js:201).
RefreshDone ==
  /\ refreshOut > 0
  /\ \E err \in {Null, RefreshErr} :
       Commit(DeferCallback(
                Record([Cur EXCEPT !.refreshOut = @ - 1],
                       IF err # Null THEN "refresh-fail" ELSE "refresh-ok", 0),
                err))
  /\ UNCHANGED <<dvars, pvars>>

InitSync ==
  /\ started = FALSE
  /\ total = 0
  /\ size = 1
  /\ cursor = 0
  /\ paused = FALSE
  /\ ended = FALSE
  /\ streamClosed = FALSE
  /\ listening = FALSE
  /\ buffer = <<>>
  /\ inFlight = <<>>
  /\ waiting = FALSE
  /\ dispatched = <<>>
  /\ delivered = <<>>
  /\ failed = <<>>
  /\ log = <<>>
  /\ refreshOut = 0
  /\ outcome = "pending"
  /\ outside = 0

InitDelete ==
  /\ dPhase = "idle"
  /\ dStart = 0
  /\ dRetry = 0
  /\ dCalls = 0
  /\ dWaits = 0
  /\ dHist = <<>>
  /\ dResult = <<>>
  /\ dTimers = <<>>
  /\ dOwner = "none"

InitPlugin ==
  /\ configured = FALSE
  /\ oIndex = FALSE
  /\ oBulk = FALSE
  /\ oBulker = 0
  /\ nBulkers = 0
  /\ oCalls = 0
  /\ syncBulkers = <<>>
  /\ hRuns = 0
  /\ hIndexOut = 0
  /\ hLog = <<>>

InitMapping ==
  /\ mCalls = <<>>
  /\ eIndex = FALSE

Init == InitSync /\ InitDelete /\ InitPlugin /\ InitMapping

NextSync ==
  \/ Synchronize
  \/ StreamData
  \/ StreamClose
  \/ BulkSent
  \/ BulkError
  \/ RefreshDone

SpecSync == Init /\ [][NextSync]_vars

\* A queue handed to the plugin as options.bulker stays with its owner, who
\* pushes an operation (0: no record of the stream) and flushes once the
\* synchronize run has finalized (section 5 rules out concurrent use).
OutsideFlush ==
  /\ started /\ \E i \in DOMAIN log : log[i].ev = "refresh"
  /\ outside < MaxOutside
  /\ inFlight = <<>>
  /\ Commit(BulkerFlush(BulkerPush([Cur EXCEPT !.outside = @ + 1], 0).st))
  /\ UNCHANGED <<dvars, pvars>>

NextShared ==
  \/ NextSync
  \/ OutsideFlush

SpecShared == Init /\ [][NextShared]_vars

\* The claim's assumptions on the collaborators: a resumed stream emits its
\* next record or its end, and every bulk and refresh call is answered.
FairSpecSync ==
  /\ SpecSync
  /\ WF_vars(StreamData)
  /\ WF_vars(StreamClose)
  /\ WF_vars(BulkSent \/ BulkError)
  /\ WF_vars(RefreshDone)

-----------------------------------------------------------------------------
(* Properties of synchronize.                                              *)

Ceil(n, b) == (n + b - 1) \div b

\* Positions of the log entries named name.
LogAt(name) == {i \in DOMAIN log : log[i].ev = name}

LogCount(name) == Cardinality(LogAt(name))

\* The arguments of the log entries named name, in order.
LogArgs(name) ==
  LET sel == SelectSeq(log, LAMBDA e : e.ev = name)
  IN [i \in 1..Len(sel) |-> sel[i].arg]

\* The err arguments of the log entries named name, in order.
LogErrs(name) ==
  LET sel == SelectSeq(log, LAMBDA e : e.ev = name)
  IN [i \in 1..Len(sel) |-> sel[i].err]

\* <<1, ..., n>>: the first n records of the stream, in emission order.
Records(n) == [i \in 1..n |-> i]

RECURSIVE Flatten(_)
Flatten(batches) ==
  IF batches = <<>> THEN <<>> ELSE Head(batches) \o Flatten(Tail(batches))

\* Number of batches of bs that hold record r.
Holding(bs, r) ==
  Cardinality({i \in DOMAIN bs : \E j \in DOMAIN bs[i] : bs[i][j] = r})

RefreshIssued == LogCount("refresh") > 0

\* C1: a stream of N records with size bound B is dispatched as ceil(N/B)
\* batches, each of B records but the last, which holds the rest; N data
\* notifications are emitted, and all of this before the refresh call.
C1_BatchesAndData ==
  RefreshIssued =>
    /\ cursor = total
    /\ Len(dispatched) = Ceil(total, size)
    /\ \A i \in DOMAIN dispatched :
         Len(dispatched[i]) =
           IF i < Len(dispatched) THEN size ELSE total - size * (i - 1)
    /\ LogCount("es-bulk-data") = total
    /\ \A i \in LogAt("es-bulk-data") \cup LogAt("bulk") :
         \A j \in LogAt("refresh") : i < j

\* The 120 / 50 scenario scaled down: 5 records, bound 2, batches 2, 2, 1.
C1_Witness ==
  /\ RefreshIssued
  /\ total = 5 /\ size = 2
  /\ dispatched = <<<<1, 2>>, <<3, 4>>, <<5>>>>

\* C2: finalize issues exactly one refresh call: never two, and one as soon
\* as the stream has ended and no bulk call is outstanding.
C2_OneRefresh ==
  /\ LogCount("refresh") <= 1
  /\ (ended /\ inFlight = <<>>) => LogCount("refresh") = 1

\* The last batch was force-flushed by the close listener, after an earlier
\* one was auto-flushed.
C2_Witness ==
  /\ LogCount("refresh") = 1
  /\ Len(dispatched) >= 2
  /\ Len(dispatched[Len(dispatched)]) < size

Settled == outcome # "pending"

\* The stream is paused for good: nothing is in flight that would resume it.
Deadlocked ==
  /\ started /\ ~Settled
  /\ paused /\ ~ended
  /\ inFlight = <<>> /\ refreshOut = 0

\* C3: under the fairness of FairSpecSync every synchronize call settles its
\* promise, and no state is a deadlock: an unsettled run always has a stream
\* that flows or a call that is outstanding.
C3_Settles ==
  /\ [](~Deadlocked)
  /\ [](started /\ ~Settled =>
          ENABLED (StreamData \/ StreamClose \/ BulkSent \/ BulkError
                     \/ RefreshDone))
  /\ (started ~> Settled)

\* A run that was paused on full batches, saw a bulk error, and settled.
C3_Witness ==
  /\ Settled
  /\ total > size
  /\ LogCount("es-bulk-error") >= 1

\* C4: once the refresh call is issued, every record the stream emitted is
\* in a dispatched batch and the pending batch is empty.
C4_NoEarlyCompletion ==
  (RefreshIssued \/ Settled) =>
    /\ buffer = <<>>
    /\ \A r \in 1..cursor : Holding(dispatched, r) >= 1

\* Refresh issued after a forced flush of a partial last batch.
C4_Witness ==
  /\ RefreshIssued
  /\ cursor = 4 /\ size = 3
  /\ Holding(dispatched, 4) = 1

\* C5: the promise is rejected iff the refresh call failed and resolved iff
\* it succeeded, whatever the bulk calls did; the rejection carries the
\* refresh error.
C5_OutcomeIsRefresh ==
  /\ outcome = "rejected" <=> LogCount("refresh-fail") > 0
  /\ outcome = "resolved" <=> LogCount("refresh-ok") > 0
  /\ outcome = "rejected" => LogErrs("reject") = <<RefreshErr>>
  /\ LogCount("reject") + LogCount("resolve") <= 1

\* Every bulk call of the run failed and the promise is resolved.
C5_Witness ==
  /\ outcome = "resolved"
  /\ LogCount("es-bulk-error") = 3
  /\ LogCount("es-bulk-sent") = 0

\* C6, as stated: when a bulk call has failed, every emitted record is still
\* in a batch whose bulk call succeeded, and in one dispatched batch only.
C6_NoLossAfterBulkError ==
  (Settled /\ LogCount("es-bulk-error") > 0) =>
    /\ \A r \in 1..cursor : Holding(delivered, r) >= 1
    /\ \A r \in 1..cursor : Holding(dispatched, r) <= 1

\* C6, amended: every emitted record is placed in exactly one batch (pending
\* or dispatched) and is never dispatched twice; a batch whose bulk call
\* failed is reported and not dispatched again, so its records are in no
\* batch that succeeded.
C6_NoDuplicateNoResend ==
  /\ Flatten(dispatched) \o buffer = Records(cursor)
  /\ \A r \in 1..cursor : Holding(dispatched, r) <= 1
  /\ \A r \in 1..cursor :
       Holding(delivered, r) + Holding(failed, r) + Holding(inFlight, r)
         = Holding(dispatched, r)
  /\ Len(delivered) = LogCount("es-bulk-sent")
  /\ Len(failed) = LogCount("es-bulk-error")

\* The second of three batches failed; the run is over and its records were
\* delivered by no bulk call.
C6_Witness ==
  /\ Settled
  /\ size = 2
  /\ dispatched = <<<<1, 2>>, <<3, 4>>, <<5, 6>>>>
  /\ delivered = <<<<1, 2>>, <<5, 6>>>>
  /\ failed = <<<<3, 4>>>>

\* C9: records are pushed, and notified, in the order the stream emitted
\* them, none skipped and none twice, and every push directly follows a pause
\* of the stream.
C9_PushOrder ==
  /\ LogArgs("push") = Records(cursor)
  /\ LogArgs("es-bulk-data") = Records(cursor)
  /\ Flatten(dispatched) \o buffer = LogArgs("push")
  /\ \A i \in LogAt("push") : i > 1 /\ log[i - 1].ev = "pause"
  /\ LogCount("pause") = LogCount("push")

\* A whole stream was pushed, across batches.
C9_Witness ==
  /\ ended
  /\ total = 4 /\ size = 3
  /\ LogArgs("push") = <<1, 2, 3, 4>>

\* C10: at most one bulk call is outstanding, the pending batch never holds
\* more than B operations, and the stream flows only while the pending batch
\* is below the bound.
C10_SingleFlightBounded ==
  /\ Len(inFlight) <= 1
  /\ Len(buffer) <= size
  /\ (started /\ ~paused /\ ~ended) => Len(buffer) < size

\* A batch is in flight, the stream is paused and more records are to come.
C10_Witness ==
  /\ Len(inFlight) = 1
  /\ paused
  /\ cursor < total
  /\ Len(dispatched) = 2

\* The suffix the step adds to the log.
Added == SubSeq(log', Len(log) + 1, Len(log'))

\* The step is the 'data' listener running for the next record.
DataStep == cursor' = cursor + 1

\* The step is the answer to a bulk call: 'sent' or 'error' of the queue.
AnswerStep ==
  Len(delivered') + Len(failed') = Len(delivered) + Len(failed) + 1

SentStep == Len(delivered') = Len(delivered) + 1

\* What push returns for the next record, and whether it fills the batch.
PushResult == BulkerPush(StreamPause(Cur), cursor + 1).sending
PushFills == Len(buffer) + 1 >= size

\* C12, as stated: the 'data' listener resumes the stream iff push returned
\* true, and a stream left paused is resumed only by a sent or error event.
C12_ResumeIfPushTrue ==
  [][/\ DataStep => (~paused' <=> PushResult = TRUE)
     /\ (paused /\ ~paused') => AnswerStep]_vars

\* C12, amended: the 'data' listener pauses, pushes, and resumes the stream
\* iff push returned false, which is when the pending batch is still below
\* its bound; otherwise the stream stays paused, and a paused stream is
\* resumed only by a sent or error event of the queue.
C12_ResumeIfNotSending ==
  [][/\ DataStep =>
          /\ ~paused' <=> PushResult = FALSE
          /\ ~paused' <=> ~PushFills
          /\ Added[1].ev = "pause" /\ Added[2].ev = "push"
          /\ Added[Len(Added)].ev = IF PushFills THEN "es-bulk-data" ELSE "resume"
     /\ (paused /\ ~paused') => AnswerStep]_vars

\* The stream was left paused by a push that filled the batch and resumed by
\* the answer to that batch's bulk call.
C12_Witness ==
  /\ ~paused /\ ~ended
  /\ cursor = size /\ cursor < total
  /\ Len(delivered) + Len(failed) = 1

\* C13: on a sent or error event the controller emits es-bulk-sent with the
\* batch's count, or es-bulk-error with the error, and then issues the
\* refresh if the stream has closed and resumes the stream otherwise.
C13_AnswerHandled ==
  [][AnswerStep =>
       /\ Len(Added) = 2
       /\ Added[1] = IF SentStep
                     THEN Ev("es-bulk-sent", Len(Head(inFlight)), Null)
                     ELSE Ev("es-bulk-error", 0, BulkErr)
       /\ IF streamClosed
          THEN /\ Added[2].ev = "refresh"
               /\ refreshOut' = refreshOut + 1
               /\ paused' = paused
          ELSE /\ Added[2].ev = "resume"
               /\ ~paused'
               /\ refreshOut' = refreshOut]_vars

\* The bulk call of batch 2 of 3 failed: es-bulk-error fired, the stream
\* went on, batches 1 and 3 were dispatched and delivered, finalize ran.
C13_Witness ==
  /\ RefreshIssued
  /\ total = 3 /\ size = 1
  /\ dispatched = <<<<1>>, <<2>>, <<3>>>>
  /\ failed = <<<<2>>>>
  /\ LogCount("es-bulk-error") = 1

\* The step is the 'close' listener running.
CloseStep == ~ended /\ ended'

\* C14: at the end of the stream a non-empty pending batch is flushed once
\* and no refresh is issued by the close listener; an empty one means the
\* refresh is issued at once and nothing is flushed.  The refresh of a run
\* that flushed follows the answer to the flushed batch, and an empty stream
\* ends in no bulk call and one refresh.
C14_CloseFlushesOrFinalizes ==
  /\ [][CloseStep =>
          IF buffer # <<>>
          THEN /\ dispatched' = Append(dispatched, buffer)
               /\ inFlight' = <<buffer>>
               /\ Len(Added) = 1 /\ Added[1].ev = "bulk"
               /\ refreshOut' = refreshOut
          ELSE /\ dispatched' = dispatched
               /\ Len(Added) = 1 /\ Added[1].ev = "refresh"
               /\ refreshOut' = refreshOut + 1]_vars
  /\ [][(ended /\ ~CloseStep) => dispatched' = dispatched]_vars
  /\ [](RefreshIssued =>
          /\ Len(dispatched) = Len(delivered) + Len(failed)
          /\ (total = 0 => dispatched = <<>> /\ LogCount("refresh") = 1))

\* The close listener has flushed a partial batch; its answer is awaited
\* and no refresh has been issued.
C14_Witness ==
  /\ ended /\ streamClosed
  /\ Len(inFlight) = 1
  /\ Len(inFlight[1]) < size
  /\ ~RefreshIssued

\* C17: the refresh call is issued only when every bulk call of the run has
\* been answered: each dispatch in the log has its sent or error notification
\* before the refresh, and nothing is in flight from then on.
C17_RefreshAfterBulk ==
  RefreshIssued =>
    /\ inFlight = <<>>
    /\ ~waiting
    /\ \A j \in LogAt("refresh") :
         Cardinality({i \in LogAt("bulk") : i < j})
           = Cardinality({i \in LogAt("es-bulk-sent") \cup LogAt("es-bulk-error") :
                            i < j})
    /\ \A j \in LogAt("refresh") : \A i \in LogAt("bulk") : i < j

\* Refresh issued after a forced flush was answered by an error.
C17_Witness ==
  /\ RefreshIssued
  /\ Len(failed) >= 1
  /\ failed[Len(failed)] = dispatched[Len(dispatched)]
  /\ Len(dispatched[Len(dispatched)]) < size

\* Notifications, resumes and refresh calls of the invocation in a log.
Reactions(l) ==
  Len(SelectSeq(l, LAMBDA e : e.ev \in {"es-bulk-sent", "es-bulk-error",
                                        "resume", "refresh"}))

\* C18: finalize removes the two listeners when it issues the refresh; from
\* then on no event of the queue makes this invocation notify, resume the
\* stream or issue another refresh.
C18_DetachedAfterFinalize ==
  /\ [](RefreshIssued => ~listening /\ LogCount("refresh") = 1)
  /\ [][RefreshIssued =>
          /\ Reactions(log') = Reactions(log)
          /\ paused' = paused
          /\ refreshOut' <= refreshOut]_vars

\* After finalize the queue answered a bulk call, with success and with an
\* error, and the invocation did not react.
C18_Witness ==
  /\ RefreshIssued
  /\ outside = 2
  /\ Len(delivered) > LogCount("es-bulk-sent")
  /\ Len(failed) > LogCount("es-bulk-error")

-----------------------------------------------------------------------------
(* Retryable delete, index.js 278-314.                                     *)

\* err.message values the engine's client may answer with, as character
\* sequences: "404", "Not Found 404" shortened, "500", "4004".
Msg404 == <<"4", "0", "4">>
MsgNF404 == <<"N", "F", " ", "4", "0", "4">>
Msg500 == <<"5", "0", "0">>
Msg4004 == <<"4", "0", "0", "4">>
Messages == {Msg404, MsgNF404, Msg500, Msg4004}

\* What client.delete hands its callback: err is null (ok) or an Error.
NoErr == [ok |-> TRUE, message |-> <<>>]
Errors == {[ok |-> FALSE, message |-> m] : m \in Messages}
Answers == {NoErr} \cup Errors

\* String.prototype.indexOf: first index (from 0) of needle in hay, or -1.
IndexOf(hay, needle) ==
  LET n == Len(needle)
      hits == {i \in 0..(Len(hay) - n) :
                 \A j \in 1..n : hay[i + j] = needle[j]}
  IN IF hits = {} THEN -1
     ELSE CHOOSE i \in hits : \A k \in hits : i <= k

\* The test with indexOf(...) > 0 in place of > -1.
IsNotFound_Positive(err) == ~err.ok /\ IndexOf(err.message, Msg404) > 0

\* The test reduced to `err`: every error counts as "not found".
IsNotFound_AnyError(err) == ~err.ok

\* err && err.message.indexOf('404') > -1, index.js:301
IsNotFound(err) == ~err.ok /\ IndexOf(err.message, Msg404) > -1

\* The test with retry >= 0 in place of retry > 0.
MayRetry_Inclusive(retry) == retry >= 0

\* retry && retry > 0, index.js:302
MayRetry(retry) == retry # 0 /\ retry > 0

\* The argument of the recursive call, index.js:304
NextRetry(retry) == retry - 1

\* An entry of the hooks' history: a hook run, a call or a notification,
\* with the err the notification carries.
HEv(name, err) == [ev |-> name, err |-> err]

\* The callback handed to deleteByMongoId: the caller's own, or for the
\* post-remove hook the function that emits es-removed (index.js 336-338,
\* through defer.callback of removeDoc).
DeleteCallback(err) ==
  /\ dResult' = Append(dResult, err)
  /\ hLog' = IF dOwner = "hook" THEN Append(hLog, HEv("es-removed", err))
             ELSE hLog

\* The callback of client.delete with the else of index.js:306 missing: a
\* "not found" error with retries left is retried and also surfaced.
OnDeleted_CallbackAndRetry(err) ==
  IF IsNotFound(err) /\ MayRetry(dRetry)
  THEN /\ dPhase' = "waiting"
       /\ dWaits' = dWaits + 1
       /\ dTimers' = Append(dTimers, BackoffMs)
       /\ DeleteCallback(err)
  ELSE /\ dPhase' = "done"
       /\ DeleteCallback(err)
       /\ UNCHANGED <<dWaits, dTimers>>

\* function (err) {...}, the callback of client.delete, index.js 300-312
OnDeleted(err) ==
  IF IsNotFound(err) /\ MayRetry(dRetry)
  THEN /\ dPhase' = "waiting"
       /\ dWaits' = dWaits + 1
       /\ dTimers' = Append(dTimers, BackoffMs)
       /\ UNCHANGED <<dResult, hLog>>
  ELSE /\ dPhase' = "done"
       /\ DeleteCallback(err)
       /\ UNCHANGED <<dWaits, dTimers>>

\* deleteByMongoId(options, document, callback, retry) is entered from outside
\* with some retry count (removeDoc passes DefaultRetry): client.delete is
\* called, index.js 293-299.
DeleteByMongoId ==
  /\ dPhase = "idle"
  /\ \E r \in 0..DefaultRetry :
       /\ dStart' = r
       /\ dRetry' = r
  /\ dPhase' = "calling"
  /\ dCalls' = dCalls + 1
  /\ dOwner' = "direct"
  /\ UNCHANGED <<dWaits, dHist, dResult, dTimers>>
  /\ UNCHANGED <<svars, pvars>>

\* client.delete answers: the callback of index.js 300-312 runs.
DeleteAnswer ==
  /\ dPhase = "calling"
  /\ \E err \in Answers :
       /\ dHist' = Append(dHist, err)
       /\ OnDeleted(err)
  /\ UNCHANGED <<dStart, dRetry, dCalls, dOwner>>
  /\ UNCHANGED <<svars, ovars, hRuns, hIndexOut, mvars>>

\* The timer of index.js 303-305 fires: deleteByMongoId(..., retry - 1).
DeleteRetry ==
  /\ dPhase = "waiting"
  /\ dRetry' = NextRetry(dRetry)
  /\ dPhase' = "calling"
  /\ dCalls' = dCalls + 1
  /\ UNCHANGED <<dStart, dWaits, dHist, dResult, dTimers, dOwner>>
  /\ UNCHANGED <<svars, pvars>>

NextDelete ==
  \/ DeleteByMongoId
  \/ DeleteAnswer
  \/ DeleteRetry

SpecDelete == Init /\ [][NextDelete]_vars

\* Every client.delete call is answered and every timer fires.
FairSpecDelete ==
  /\ SpecDelete
  /\ WF_vars(DeleteAnswer)
  /\ WF_vars(DeleteRetry)

-----------------------------------------------------------------------------
(* The plugin's options and the persistence hooks, index.js 7-55, 255-283  *)
(* and 321-340.                                                            *)

\* What `this` is inside esOptions: the model (this.esOptions() in a static,
\* index.js 72, 122, 149, 192) or the schema's statics object
\* (this.schema.statics.esOptions() in a document method, index.js 256, 279),
\* which has no collection.
ThisModel == "Model"
ThisStatics == "statics"

\* The closure variable `options` (index.js:9) as far as esOptions decides
\* on it: index set or not, bulk set or not, the bulker, the instances made.
Opts == [index |-> oIndex, bulk |-> oBulk, bulker |-> oBulker, n |-> nBulkers]

SetOpts(o) ==
  /\ oIndex' = o.index
  /\ oBulk' = o.bulk
  /\ oBulker' = o.bulker
  /\ nBulkers' = o.n

\* esOptions with the queue built only when options.bulker is not yet set.
EsOptions_KeepBulker(o, this) ==
  IF ~o.index /\ this # ThisModel
  THEN [o |-> o, threw |-> TRUE]
  ELSE LET o1 == [o EXCEPT !.index = TRUE]
       IN [o |-> IF o1.bulk /\ o1.bulker = 0
                 THEN [o1 EXCEPT !.bulker = o1.n + 1, !.n = o1.n + 1]
                 ELSE o1,
           threw |-> FALSE]

\* function esOptions(), index.js 16-39.  With options.index unset, line 18
\* reads this.collection.name: a TypeError when `this` has no collection.
\* With options.bulk set, line 29 builds a new Bulker and stores it.
EsOptions(o, this) ==
  IF ~o.index /\ this # ThisModel
  THEN [o |-> o, threw |-> TRUE]
  ELSE LET o1 == [o EXCEPT !.index = TRUE]
       IN [o |-> IF o1.bulk
                 THEN [o1 EXCEPT !.bulker = o1.n + 1, !.n = o1.n + 1]
                 ELSE o1,
           threw |-> FALSE]

\* schema.plugin(mexp, options), index.js 7-9: the options the application
\* gives: index or not, bulk or not, a Bulker of its own as bulker or not.
Plugin ==
  /\ ~configured
  /\ configured' = TRUE
  /\ \E index \in BOOLEAN, bulk \in BOOLEAN, own \in {0, 1} :
       SetOpts([index |-> index, bulk |-> bulk, bulker |-> own, n |-> own])
  /\ UNCHANGED <<oCalls, syncBulkers>>
  /\ UNCHANGED <<svars, dvars, hvars, mvars>>

\* A static other than synchronize is called on the model: esRefresh,
\* esSearch, esCreateMapping start with this.esOptions(), index.js 72, 122, 149.
StaticOptions ==
  /\ configured /\ oCalls < MaxCalls
  /\ oCalls' = oCalls + 1
  /\ SetOpts(EsOptions(Opts, ThisModel).o)
  /\ UNCHANGED <<configured, syncBulkers>>
  /\ UNCHANGED <<svars, dvars, hvars, mvars>>

\* synchronize is called on the model: its options and its queue,
\* index.js 192-195: esOptions.bulker, or a new Bulker when that is unset.
SyncOptions ==
  /\ configured /\ oCalls < MaxCalls
  /\ oCalls' = oCalls + 1
  /\ LET o == EsOptions(Opts, ThisModel).o
     IN IF o.bulker # 0
        THEN /\ SetOpts(o)
             /\ syncBulkers' = Append(syncBulkers, o.bulker)
        ELSE /\ SetOpts([o EXCEPT !.n = o.n + 1])
             /\ syncBulkers' = Append(syncBulkers, o.n + 1)
  /\ UNCHANGED configured
  /\ UNCHANGED <<svars, dvars, hvars, mvars>>

\* An error of client.index.
IndexErr == [ok |-> FALSE, message |-> Msg500]

\* postSave(doc), index.js 321-327, with doc.esIndex (indexDoc, 255-270).
PostSave ==
  /\ configured /\ hRuns < MaxHooks
  /\ hRuns' = hRuns + 1
  /\ \E doc \in {"null", "doc"} :
       IF doc = "null"
       THEN /\ hLog' = Append(hLog, HEv("postSave-null", NoErr))
            /\ UNCHANGED <<oIndex, oBulk, oBulker, nBulkers, hIndexOut>>
       ELSE LET r == EsOptions(Opts, ThisStatics)
            IN IF r.threw
               THEN /\ hLog' = hLog \o <<HEv("postSave", NoErr),
                                         HEv("throw", NoErr)>>
                    /\ UNCHANGED <<oIndex, oBulk, oBulker, nBulkers, hIndexOut>>
               ELSE /\ SetOpts(r.o)
                    /\ hIndexOut' = hIndexOut + 1
                    /\ hLog' = hLog \o <<HEv("postSave", NoErr),
                                         HEv("index", NoErr)>>
  /\ UNCHANGED <<configured, oCalls, syncBulkers>>
  /\ UNCHANGED <<svars, dvars, mvars>>

\* client.index answers: defer.callback runs the hook's callback, which
\* emits es-indexed with the error or the result (index.js 323-325).
IndexAnswer ==
  /\ hIndexOut > 0
  /\ hIndexOut' = hIndexOut - 1
  /\ \E err \in {NoErr, IndexErr} :
       hLog' = Append(hLog, HEv("es-indexed", err))
  /\ UNCHANGED hRuns
  /\ UNCHANGED <<svars, dvars, ovars, mvars>>

\* removeDoc(callback), index.js 278-283, as called by `owner`: esOptions,
\* then deleteByMongoId with retry 3.  entered/thrown are what the hook's
\* history gains in either case.
RemoveDocBy(owner, entered, thrown) ==
  LET r == EsOptions(Opts, ThisStatics)
  IN IF r.threw
     THEN /\ hLog' = hLog \o thrown
          /\ UNCHANGED <<oIndex, oBulk, oBulker, nBulkers>>
          /\ UNCHANGED dvars
     ELSE /\ SetOpts(r.o)
          /\ hLog' = hLog \o entered
          /\ dStart' = DefaultRetry
          /\ dRetry' = DefaultRetry
          /\ dPhase' = "calling"
          /\ dCalls' = dCalls + 1
          /\ dOwner' = owner
          /\ UNCHANGED <<dWaits, dHist, dResult, dTimers>>

\* postRemove(doc), index.js 334-340, with doc.esRemove.
PostRemove ==
  /\ configured /\ hRuns < MaxHooks /\ dPhase = "idle"
  /\ hRuns' = hRuns + 1
  /\ \E doc \in {"null", "doc"} :
       IF doc = "null"
       THEN /\ hLog' = Append(hLog, HEv("postRemove-null", NoErr))
            /\ UNCHANGED <<oIndex, oBulk, oBulker, nBulkers>>
            /\ UNCHANGED dvars
       ELSE RemoveDocBy("hook",
                        <<HEv("postRemove", NoErr), HEv("delete", NoErr)>>,
                        <<HEv("postRemove", NoErr), HEv("throw", NoErr)>>)
  /\ UNCHANGED <<configured, oCalls, syncBulkers, hIndexOut>>
  /\ UNCHANGED <<svars, mvars>>

\* doc.esRemove(callback) called by the application, index.js 278-283.
RemoveDoc ==
  /\ configured /\ dPhase = "idle"
  /\ RemoveDocBy("removeDoc", <<>>, <<>>)
  /\ UNCHANGED <<configured, oCalls, syncBulkers, hRuns, hIndexOut>>
  /\ UNCHANGED <<svars, mvars>>

\* The options over the calls of the model's statics and the save hook.
NextOptions ==
  \/ Plugin
  \/ StaticOptions
  \/ SyncOptions
  \/ PostSave
  \/ IndexAnswer

SpecOptions == Init /\ [][NextOptions]_vars

\* The hooks and the removal of a document, after any calls of a static on
\* the model.
NextHooks ==
  \/ Plugin
  \/ StaticOptions
  \/ PostSave
  \/ IndexAnswer
  \/ PostRemove
  \/ RemoveDoc
  \/ DeleteAnswer
  \/ DeleteRetry

SpecHooks == Init /\ [][NextHooks]_vars

-----------------------------------------------------------------------------
(* esCreateMapping, index.js 65-113.                                       *)

\* The errors of the three indices calls.
ExistsErr == "exists error"
CreateErr == "create error"
PutErr == "putMapping error"

\* An entry of an invocation's trace: a call, an answer or the settling of
\* its outcome, with the err it carries.
MEv(name, err) == [ev |-> name, err |-> err]

MCall(c, name) == [c EXCEPT !.trace = Append(@, MEv(name, Null))]

\* defer.reject(err): the outcome is rejected with err.
MapReject(c, err) ==
  [c EXCEPT !.phase = "done", !.trace = Append(@, MEv("reject", err))]

\* defer.callback(err, res): rejected with err, or resolved.
MapCallback(c, err) ==
  IF err # Null
  THEN MapReject(c, err)
  ELSE [c EXCEPT !.phase = "done", !.trace = Append(@, MEv("resolve", Null))]

\* client.indices.putMapping(..., defer.callback), index.js 82-89 and 100-107
PutMapping(c) == [MCall(c, "putMapping") EXCEPT !.phase = "put"]

\* client.indices.create(..., function (err) {...}), index.js 91-95
CreateIndex(c) == [MCall(c, "create") EXCEPT !.phase = "create"]

\* The callback of indices.exists without the first `return`: after the
\* reject the test of `exists` (undefined) goes on to indices.create.
OnExists_NoReturn(c, err, exists) ==
  IF err # Null THEN CreateIndex(MapReject(c, err))
  ELSE IF exists THEN PutMapping(c)
  ELSE CreateIndex(c)

\* The callback of indices.exists with the test of `exists` inverted.
OnExists_Inverted(c, err, exists) ==
  IF err # Null THEN MapReject(c, err)
  ELSE IF ~exists THEN PutMapping(c)
  ELSE CreateIndex(c)

\* function (err, exists) {...}, the callback of indices.exists,
\* index.js 77-110
OnExists(c, err, exists) ==
  IF err # Null THEN MapReject(c, err)
  ELSE IF exists THEN PutMapping(c)
  ELSE CreateIndex(c)

\* function (err) {...}, the callback of indices.create, index.js 96-108
OnCreated(c, err) ==
  IF err # Null THEN MapReject(c, err)
  ELSE PutMapping(c)

\* createMapping(settings, callback) is called on the model: esOptions, then
\* indices.exists, index.js 65-77.
CreateMapping ==
  /\ configured /\ oCalls < MaxCalls
  /\ oCalls' = oCalls + 1
  /\ SetOpts(EsOptions(Opts, ThisModel).o)
  /\ mCalls' = Append(mCalls, MCall([phase |-> "exists", trace |-> <<>>],
                                    "exists"))
  /\ UNCHANGED <<configured, syncBulkers, eIndex>>
  /\ UNCHANGED <<svars, dvars, hvars>>

\* indices.exists answers invocation i: an error, or whether the engine has
\* the index.
ExistsAnswer ==
  /\ \E i \in DOMAIN mCalls :
       /\ mCalls[i].phase = "exists"
       /\ \E err \in {Null, ExistsErr} :
            LET ans == IF err # Null THEN "exists-error"
                       ELSE IF eIndex THEN "exists-true" ELSE "exists-false"
                c == [mCalls[i] EXCEPT !.trace = Append(@, MEv(ans, err))]
            IN mCalls' = [mCalls EXCEPT ![i] = OnExists(c, err, eIndex)]
  /\ UNCHANGED eIndex
  /\ UNCHANGED <<svars, dvars, ovars, hvars>>

\* indices.create answers invocation i: an error (always, when the engine has
\* the index by now), or the index is created.
CreateAnswer ==
  /\ \E i \in DOMAIN mCalls :
       /\ mCalls[i].phase = "create"
       /\ \E err \in (IF eIndex THEN {CreateErr} ELSE {Null, CreateErr}) :
            LET ans == IF err # Null THEN "create-error" ELSE "create-ok"
                c == [mCalls[i] EXCEPT !.trace = Append(@, MEv(ans, err))]
            IN /\ mCalls' = [mCalls EXCEPT ![i] = OnCreated(c, err)]
               /\ eIndex' = (eIndex \/ err = Null)
  /\ UNCHANGED <<svars, dvars, ovars, hvars>>

\* indices.putMapping answers invocation i: defer.callback runs.
PutMappingAnswer ==
  /\ \E i \in DOMAIN mCalls :
       /\ mCalls[i].phase = "put"
       /\ \E err \in {Null, PutErr} :
            LET ans == IF err # Null THEN "putMapping-error" ELSE "putMapping-ok"
                c == [mCalls[i] EXCEPT !.trace = Append(@, MEv(ans, err))]
            IN mCalls' = [mCalls EXCEPT ![i] = MapCallback(c, err)]
  /\ UNCHANGED eIndex
  /\ UNCHANGED <<svars, dvars, ovars, hvars>>

NextMapping ==
  \/ Plugin
  \/ CreateMapping
  \/ ExistsAnswer
  \/ CreateAnswer
  \/ PutMappingAnswer

SpecMapping == Init /\ [][NextMapping]_vars

-----------------------------------------------------------------------------
(* Properties of the retryable delete.                                     *)

\* The engine's "not found" answers, and its other failures.
NotFoundAnswers == {[ok |-> FALSE, message |-> m] : m \in {Msg404, MsgNF404}}
OtherErrors == {[ok |-> FALSE, message |-> m] : m \in {Msg500, Msg4004}}

AllNotFound(h) == \A i \in DOMAIN h : h[i] \in NotFoundAnswers

Front(h) == SubSeq(h, 1, Len(h) - 1)

\* C7: against an engine answering "not found" K times and then succeeding,
\* a delete entered with retry count M succeeds after K retries when M >= K
\* (K + 1 calls, K backoff timers) and fails with the not-found error after M
\* retries when M < K (M + 1 calls, M timers); each retry follows one timer
\* of BackoffMs, and the callback runs once, after the last call.
C7_RetryCount ==
  /\ (dPhase = "done" /\ dHist # <<>> /\ dHist[Len(dHist)] = NoErr
        /\ AllNotFound(Front(dHist))) =>
       LET K == Len(dHist) - 1
       IN /\ K <= dStart
          /\ dCalls = K + 1
          /\ dWaits = K
          /\ dResult = <<NoErr>>
  /\ (dPhase = "done" /\ AllNotFound(dHist)) =>
       /\ Len(dHist) = dStart + 1
       /\ dCalls = dStart + 1
       /\ dWaits = dStart
       /\ dResult = <<dHist[Len(dHist)]>>
  /\ (dPhase # "done") => dResult = <<>>
  /\ dCalls = dWaits + (IF dPhase \in {"calling", "done"} THEN 1 ELSE 0)
  /\ dTimers = [i \in 1..dWaits |-> BackoffMs]
  /\ Len(dHist) = dCalls - (IF dPhase = "calling" THEN 1 ELSE 0)

\* Not found twice, success on the third attempt, retry count 3.
C7_Witness ==
  /\ dPhase = "done"
  /\ dStart = 3
  /\ dHist = <<[ok |-> FALSE, message |-> Msg404],
               [ok |-> FALSE, message |-> MsgNF404], NoErr>>
  /\ dTimers = <<BackoffMs, BackoffMs>>
  /\ dResult = <<NoErr>>

\* C8: an error that is not "not found" is the last answer of the chain: the
\* callback gets it at once, no timer is started and no call follows, and
\* the retry count is the one the failing call was made with.
C8_OtherErrorSurfaces ==
  \A i \in DOMAIN dHist :
    dHist[i] \in OtherErrors =>
      /\ i = Len(dHist)
      /\ dPhase = "done"
      /\ dResult = <<dHist[i]>>
      /\ dCalls = i
      /\ dWaits = i - 1
      /\ dRetry = dStart - (i - 1)

\* A 500 on the second call, with two retries left.
C8_Witness ==
  /\ dPhase = "done"
  /\ dStart = 3 /\ dRetry = 2
  /\ dResult = <<[ok |-> FALSE, message |-> Msg500]>>

\* C19: a chain of deleteByMongoId calls invokes the callback once: with the
\* success, with an error that is not "not found", or with the "not found"
\* error of the call made at retry 0; a "not found" answer with retries left
\* invokes nothing.  With every call answered and every timer firing, the
\* callback is invoked.
C19_CallbackOnce ==
  /\ [](Len(dResult) <= 1)
  /\ [](Len(dResult) = 1 <=> dPhase = "done")
  /\ [](dPhase = "done" =>
          LET e == dHist[Len(dHist)]
          IN /\ dResult = <<e>>
             /\ \/ e = NoErr
                \/ e \in OtherErrors
                \/ e \in NotFoundAnswers /\ dRetry = 0)
  /\ [](\A i \in 1..(Len(dHist) - 1) : dHist[i] \in NotFoundAnswers)
  /\ [](dPhase = "waiting" => dRetry > 0 /\ dResult = <<>>)
  /\ (dPhase = "calling" ~> Len(dResult) = 1)

\* The chain gave up: "not found" three times from retry 2, one callback.
C19_Witness ==
  /\ dPhase = "done"
  /\ dStart = 2 /\ dRetry = 0
  /\ dCalls = 3
  /\ dResult = <<[ok |-> FALSE, message |-> Msg404]>>

-----------------------------------------------------------------------------
(* Properties of the options and the hooks.                                *)

\* Chains entered by removeDoc: by the application or by the remove hook.
RemovalChain == dOwner \in {"removeDoc", "hook"}

\* The "not found" answers among the answers of the chain so far.
NotFoundCount == Cardinality({i \in DOMAIN dHist : dHist[i] \in NotFoundAnswers})

\* C15: the retry counter of a single-document removal starts at 3, falls by
\* exactly 1 for each "not found" failure (when the backoff timer that failure
\* started fires) and on no other event, is never negative, and a "not found"
\* failure at counter 0 surfaces the error: at most 4 delete calls and at
\* most 3 backoff waits for one removeDoc.
C15_RetryCounter ==
  /\ [](RemovalChain =>
          /\ dStart = DefaultRetry
          /\ dRetry \in 0..DefaultRetry
          /\ dRetry = DefaultRetry - (dCalls - 1)
          /\ NotFoundCount = dWaits + (IF /\ dPhase = "done"
                                          /\ dHist[Len(dHist)] \in NotFoundAnswers
                                       THEN 1 ELSE 0)
          /\ dCalls <= DefaultRetry + 1
          /\ dWaits <= DefaultRetry
          /\ (dPhase = "done" /\ dHist[Len(dHist)] \in NotFoundAnswers) =>
               (dRetry = 0 /\ dResult = <<dHist[Len(dHist)]>>))
  /\ [][RemovalChain =>
          \/ dRetry' = dRetry
          \/ /\ dRetry' = dRetry - 1
             /\ dPhase = "waiting"
             /\ dHist[Len(dHist)] \in NotFoundAnswers
             /\ dCalls' = dCalls + 1]_vars

\* removeDoc gave up: four calls, three waits, the fourth "not found" error
\* at counter 0 handed to the callback.
C15_Witness ==
  /\ dOwner = "removeDoc"
  /\ dPhase = "done"
  /\ dRetry = 0
  /\ dCalls = 4 /\ dWaits = 3
  /\ dResult = <<[ok |-> FALSE, message |-> Msg404]>>

\* C16: with options.bulk set, successive synchronize invocations on the
\* model use one and the same Bulk Queue instance.
C16_SameQueue ==
  oBulk => \A i, j \in DOMAIN syncBulkers : syncBulkers[i] = syncBulkers[j]

\* How often `name` is in the hooks' history.
HCount(name) == Cardinality({i \in DOMAIN hLog : hLog[i].ev = name})

\* The remove hook's delete chain has not yet called back.
RemovePending == IF dOwner = "hook" /\ dPhase # "done" THEN 1 ELSE 0

\* C11: every run of the save hook (of the remove hook) with a document
\* starts exactly one index call (one retryable delete) and is reported by
\* exactly one es-indexed (es-removed) notification, delivered or still to
\* come; a run with a null document starts no call and notifies nothing.
C11_HooksFireAndForget ==
  /\ HCount("index") = HCount("postSave")
  /\ HCount("delete") = HCount("postRemove")
  /\ HCount("es-indexed") + hIndexOut = HCount("postSave")
  /\ HCount("es-removed") + RemovePending = HCount("postRemove")

-----------------------------------------------------------------------------
(* Properties of esCreateMapping.                                          *)

\* The positions of `name` in trace t.
MPos(t, name) == {k \in DOMAIN t : t[k].ev = name}

MSettles(t) == MPos(t, "resolve") \cup MPos(t, "reject")

\* C20: in every invocation of esCreateMapping, putMapping is called only in
\* answer to indices.exists saying true or to indices.create succeeding after
\* indices.exists said false; indices.create is called only in answer to
\* indices.exists saying false; an error of indices.exists or indices.create
\* rejects the outcome with that error and no putMapping call is made; and the
\* outcome is settled at most once, as the last step, by putMapping's result or
\* by that error.
C20_MappingOrder ==
  \A i \in DOMAIN mCalls :
    LET t == mCalls[i].trace
    IN /\ \A k \in MPos(t, "putMapping") :
            \/ t[k - 1].ev = "exists-true"
            \/ /\ t[k - 1].ev = "create-ok"
               /\ MPos(t, "exists-false") # {}
       /\ \A k \in MPos(t, "create") :
            /\ t[k - 1].ev = "exists-false"
            /\ MPos(t, "exists-true") = {}
       /\ Cardinality(MPos(t, "exists")) = 1
       /\ Cardinality(MPos(t, "create")) <= 1
       /\ Cardinality(MPos(t, "putMapping")) <= 1
       /\ \A k \in MPos(t, "exists-error") \cup MPos(t, "create-error") :
            /\ MPos(t, "putMapping") = {}
            /\ k + 1 = Len(t)
            /\ t[k + 1] = MEv("reject", t[k].err)
       /\ Cardinality(MSettles(t)) <= 1
       /\ MSettles(t) \subseteq {Len(t)}
       /\ (MSettles(t) # {}) <=> (mCalls[i].phase = "done")
       /\ \A k \in MSettles(t) :
            \/ t[k - 1].ev = "putMapping-ok" /\ t[k] = MEv("resolve", Null)
            \/ /\ t[k - 1].ev \in {"putMapping-error", "exists-error",
                                   "create-error"}
               /\ t[k] = MEv("reject", t[k - 1].err)

\* One invocation created the index and put the mapping, a later one found
\* the index and put the mapping directly, a third was rejected by the
\* error of indices.exists.
C20_Witness ==
  /\ Len(mCalls) = 3
  /\ mCalls[1].trace = <<MEv("exists", Null), MEv("exists-false", Null),
                         MEv("create", Null), MEv("create-ok", Null),
                         MEv("putMapping", Null), MEv("putMapping-ok", Null),
                         MEv("resolve", Null)>>
  /\ mCalls[2].trace = <<MEv("exists", Null), MEv("exists-true", Null),
                         MEv("putMapping", Null), MEv("putMapping-ok", Null),
                         MEv("resolve", Null)>>
  /\ mCalls[3].trace = <<MEv("exists", Null), MEv("exists-error", ExistsErr),
                         MEv("reject", ExistsErr)>>

=============================================================================
